---- MODULE Spec2Model ----
(***************************************************************************)
(* fastws: typed-envelope dispatch over websocket connections.             *)
(*   routing.py      Message, Operation, OperationRouter                   *)
(*   broker.py       Broker._match_route, Broker.__call__ (dispatch)       *)
(*   application.py  Client, FastWS: manage / serve / client_send /        *)
(*                   server_send / broadcast / handle_exception            *)
(***************************************************************************)
EXTENDS Naturals, Integers, Sequences, FiniteSets, TLC

(***************************************************************************)
(* Bounds of the model.                                                    *)
(***************************************************************************)
\* number of broadcasts (TaskGroups entered) in one run
MaxCalls == 1

\* routes registered on one sub-router before it is merged
MaxRoutes == 2

\* the clock readings of a timed run
MaxTime == 4

\* the websocket sessions (one task per accepted transport)
Sessions == {"A", "B", "C"}

\* broadcast topics
Topics == {"foo", "bar"}

(***************************************************************************)
(* Python values.                                                          *)
(***************************************************************************)
\* the name standing for Python's None where a string is expected
None == "<None>"

\* a payload of None (Message.payload defaults to None)
PNone == [isNone |-> TRUE]

IsNone(p) == "isNone" \in DOMAIN p

\* starlette.status.WS_1006_ABNORMAL_CLOSURE, the code handle_exception uses
WS_1006_ABNORMAL_CLOSURE == 1006

\* starlette.status.WS_1003_UNSUPPORTED_DATA, the code the test expects
WS_1003_UNSUPPORTED_DATA == 1003

\* an exception object: its class, its close code (0: it has none), its
\* message / reason, and the notes added with add_note
Exc(kind, code, reason) ==
    [kind |-> kind, code |-> code, reason |-> reason, notes |-> {}]

NoExc == Exc("none", 0, "")

ExcNoMatch == Exc("NoMatchingOperation", 0, "no matching route found")

ExcValidation == Exc("ValidationError", 0, "validation error")

ExcRuntime == Exc("RuntimeError", 0, "Missing parameter")

ExcAttribute == Exc("AttributeError", 0, "'Operation' object has no attribute")

ExcTimeout == Exc("TimeoutError", 0, "")

ExcHandler == Exc("HandlerFault", 0, "handler raised")

ExcAuth == Exc("AuthFault", 0, "auth handler raised")

ExcAssertion == Exc("AssertionError", 0, "already added")

\* the assert of Operation.__init__
ExcMissingReply ==
    Exc("AssertionError", 0,
        "Send operations with a response model defined must include a reply")

IsExc(v) == "kind" \in DOMAIN v

(***************************************************************************)
(* Handlers: what get_typed_signature / get_typed_return_annotation see    *)
(* of the handler functions of the example application.                    *)
(***************************************************************************)
Param(name, annotation) == [name |-> name, annotation |-> annotation]

\* the pydantic models used as annotations (subclasses of BaseModel)
BaseModels ==
    {"SubscriptionPayload", "SubscriptionResponse", "AlertPayload"}

HandlerParameters(h) ==
    CASE h = "subscribe_to_topic" ->
            << Param("payload", "SubscriptionPayload"),
               Param("client", "Client"), Param("app", "FastWS") >>
      [] h = "unsubscribe_from_topic" ->
            << Param("payload", "SubscriptionPayload"),
               Param("client", "Client") >>
      [] h = "alert_from_server" -> << Param("payload", "AlertPayload") >>
      [] OTHER -> << >>

HandlerReturnAnnotation(h) ==
    CASE h = "subscribe_to_topic" -> "SubscriptionResponse"
      [] h = "unsubscribe_from_topic" -> "SubscriptionResponse"
      [] h = "alert_from_server" -> "AlertPayload"
      [] OTHER -> None

\* pydantic model_validate of a payload against a BaseModel: the required
\* fields must be present (extra fields are ignored)
RequiredFields(model) ==
    CASE model = "SubscriptionPayload" -> {"topic"}
      [] model = "AlertPayload" -> {"message"}
      [] model = "SubscriptionResponse" -> {"detail", "topics"}
      [] OTHER -> {}

\* pydantic model_construct: the value is taken without validation
model_construct(model, value) == value

model_validate(model, value) ==
    IF model = None
    THEN value
    ELSE IF IsNone(value) \/ ~(RequiredFields(model) \subseteq DOMAIN value)
         THEN ExcValidation
         ELSE [f \in RequiredFields(model) |-> value[f]]

(***************************************************************************)
(* routing.py: Operation                                                   *)
(***************************************************************************)
\* the generic message classes _Msg[type] and _MsgWithPayload[type, payload]
MsgClass(cls, literal, payload_model) ==
    [cls |-> cls, literal |-> literal, payload_model |-> payload_model]

\* Operation.__init__: the attributes an Operation object has
Operation(operation, handler, method, reply_operation) ==
    LET response_model == HandlerReturnAnnotation(handler)
        parameters == HandlerParameters(handler)
        reply == IF method = "SEND" THEN reply_operation ELSE operation
        reply_t == IF reply # None THEN reply ELSE operation
        hasPayload == \E i \in 1..Len(parameters) :
                          parameters[i].name = "payload"
        payloadAnn == (CHOOSE i \in 1..Len(parameters) :
                          parameters[i].name = "payload")
    IN  IF method = "SEND" /\ response_model # None /\ reply = None
        THEN ExcMissingReply
        ELSE [ operation |-> operation,
               handler |-> handler,
               method |-> method,
               response_model |-> response_model,
               parameters |-> parameters,
               reply_operation |-> reply,
               payload |->
                   IF hasPayload
                   THEN MsgClass("_MsgWithPayload", operation,
                                 parameters[payloadAnn].annotation)
                   ELSE MsgClass("_Msg", operation, None),
               reply_payload |->
                   IF response_model # None
                   THEN MsgClass("_MsgWithPayload", reply_t, response_model)
                   ELSE MsgClass("_Msg", reply_t, None) ]

\* matches without the comparison of the method
matches_any_method(route, operation, method) == route.operation = operation

\* matches with str.startswith instead of the equality of the operations
matches_prefix(route, operation, method) ==
    /\ route.method = method
    /\ Len(operation) <= Len(route.operation)
    /\ SubSeq(route.operation, 1, Len(operation)) = operation

\* Operation.matches
matches(route, operation, method) ==
    route.operation = operation /\ route.method = method

\* Operation.convert_params, parameter by parameter in declaration order:
\* the bound values, or the first exception raised
RECURSIVE convert_from(_, _, _, _, _)
convert_from(parameters, i, message, params, converted) ==
    IF i > Len(parameters)
    THEN converted
    ELSE LET k == parameters[i].name
             ann == parameters[i].annotation
         IN  IF k = "payload" /\ ann \in BaseModels
             THEN LET v == model_validate(ann, message.payload)
                  IN  IF IsExc(v)
                      THEN v
                      ELSE convert_from(parameters, i + 1, message, params,
                                        converted @@ (k :> v))
             ELSE IF k \notin DOMAIN params
                  THEN ExcRuntime
                  ELSE convert_from(parameters, i + 1, message, params,
                                    converted @@ (k :> params[k]))

\* convert_params with params.get(k) for a name that is not in params
convert_params_defaulting(route, message, params) ==
    convert_from(route.parameters, 1, message,
                 [k \in {"client", "app"} |->
                     IF k \in DOMAIN params THEN params[k] ELSE None],
                 << >>)

convert_params(route, message, params) ==
    convert_from(route.parameters, 1, message, params, << >>)

(***************************************************************************)
(* routing.py: OperationRouter                                             *)
(***************************************************************************)
Range(seq) == {seq[i] : i \in 1..Len(seq)}

\* the existing_operations of add_route: the operations of the routes and
\* their reply operations that are not None
existing_operations(rs) ==
    {r.operation : r \in Range(rs)} \cup
    {r.reply_operation : r \in {q \in Range(rs) : q.reply_operation # None}}

\* what OperationRouter.add_route raises on a routes list: the AssertionError
\* of its two duplicate checks or of Operation.__init__, or NoExc
add_route_raises(rs, operation, handler, method, reply_operation) ==
    LET route == Operation(operation, handler, method, reply_operation)
    IN  IF operation \in existing_operations(rs)
        THEN ExcAssertion
        ELSE IF reply_operation \in existing_operations(rs)
        THEN ExcAssertion
        ELSE IF IsExc(route)
        THEN route
        ELSE NoExc

\* OperationRouter.add_route on a routes list: the new list, or the
\* AssertionError it raises
add_route(rs, operation, handler, method, reply_operation) ==
    LET exc == add_route_raises(rs, operation, handler, method,
                                reply_operation)
    IN  IF exc # NoExc
        THEN exc
        ELSE Append(rs, Operation(operation, handler, method,
                                  reply_operation))

\* the routes registered on the broker's own router at startup
AppRoutes ==
    add_route(
      add_route(
        add_route(
          add_route(<< >>, "ping", "application_ping", "SEND", "pong"),
          "subscribe", "subscribe_to_topic", "SEND", "subscribe.response"),
        "alert", "alert_from_server", "RECEIVE", None),
      "tick", "send_ping", "RECEIVE", None)

\* an OperationRouter object
OperationRouter(prefix, rs) == [prefix |-> prefix, routes |-> rs]

\* a call of include_router: the routes list it leaves and what it raised
Registration(rs, exc) == [routes |-> rs, exc |-> exc]

\* add_route with the append made before the asserts
add_route_appends_first(rs, operation, handler, method, reply_operation) ==
    LET route == Operation(operation, handler, method, reply_operation)
    IN  Registration(IF IsExc(route) THEN rs ELSE Append(rs, route),
                     add_route_raises(rs, operation, handler, method,
                                      reply_operation))

\* a call of add_route: the asserts and Operation() come before the append,
\* so a call that raises leaves self.routes as it was
add_route_call(rs, operation, handler, method, reply_operation) ==
    LET exc == add_route_raises(rs, operation, handler, method,
                                reply_operation)
    IN  Registration(IF exc # NoExc
                     THEN rs
                     ELSE add_route(rs, operation, handler, method,
                                    reply_operation),
                     exc)

\* the loop of include_router from the i-th route of `router` on: every route
\* is added under prefix + router.prefix + operation, without a reply
\* operation; the first AssertionError ends the loop and leaves the routes
\* added before it
RECURSIVE include_from(_, _, _, _)
include_from(rs, router, prefix, i) ==
    IF i > Len(router.routes)
    THEN Registration(rs, NoExc)
    ELSE LET route == router.routes[i]
             operation == prefix \o router.prefix \o route.operation
             exc == add_route_raises(rs, operation, route.handler,
                                     route.method, None)
         IN  IF exc # NoExc
             THEN Registration(rs, exc)
             ELSE include_from(
                      add_route(rs, operation, route.handler, route.method,
                                None),
                      router, prefix, i + 1)

\* include_router that assigns the merged routes instead of appending them
include_router_replaces(rs, router, prefix) ==
    include_from(<< >>, router, prefix, 1)

\* OperationRouter.include_router
include_router(rs, router, prefix) == include_from(rs, router, prefix, 1)

(***************************************************************************)
(* Wire format: text frames and the Message envelope.                      *)
(***************************************************************************)
\* a text frame: JSON or not, and the JSON object it holds
Text(obj) == [json |-> TRUE, obj |-> obj]

NotJson == [json |-> FALSE, obj |-> << >>]

\* Message.model_validate_json: `type` is required, `payload` defaults to None
model_validate_json(text) ==
    IF ~text.json \/ "type" \notin DOMAIN text.obj
    THEN ExcValidation
    ELSE [ type |-> text.obj.type,
           payload |-> IF "payload" \in DOMAIN text.obj
                       THEN text.obj.payload
                       ELSE PNone ]

\* BaseModel.model_dump_json: every field of the instance
model_dump_json(message) == Text(message)

Message(type, payload) == [type |-> type, payload |-> payload]

\* the frames a peer sends
InboundFrames ==
    { NotJson,
      Text([payload |-> [topic |-> "foo"]]),
      Text([type |-> "ping"]),
      Text([type |-> "subscribe", payload |-> [topic |-> "foo"]]),
      Text([type |-> "subscribe", payload |-> [foo |-> "bar"]]),
      Text([type |-> "alert", payload |-> [message |-> "foobar"]]),
      Text([type |-> "feature_0.not_an_operation",
            payload |-> [foo |-> "bar"]]) }

\* the messages a request-driven caller hands to server_send
ServerMessages ==
    { Message("alert", [message |-> "foobar"]),
      Message("alert", PNone),
      Message("tick", PNone),
      Message("ping", PNone) }

\* the messages a caller hands to broadcast directly
BroadcastMessages == { Message("alert", [message |-> "foobar"]) }

(***************************************************************************)
(* application.py: Client                                                  *)
(***************************************************************************)
\* Client.subscribe
subscribe(ts, topic) == IF topic \notin ts THEN ts \cup {topic} ELSE ts

\* Client.unsubscribe
unsubscribe(ts, topic) == IF topic \in ts THEN ts \ {topic} ELSE ts

(***************************************************************************)
(* broker.py: dispatch                                                     *)
(***************************************************************************)
\* Broker._match_route: the first route that matches, else NoMatchingOperation
match_route(rs, operation, method) ==
    LET hits == {i \in 1..Len(rs) : matches(rs[i], operation, method)}
    IN  IF hits = {}
        THEN ExcNoMatch
        ELSE rs[CHOOSE i \in hits : \A j \in hits : i <= j]

\* attribute access on an Operation object
GetAttr(route, attr) ==
    IF attr \in DOMAIN route THEN route[attr] ELSE ExcAttribute

\* model_validate of a _Msg / _MsgWithPayload class: `type` is typed
\* `Literal[...] | str`, so any string is accepted; `payload` is validated
\* against the payload model unless it is None
msg_validate(cls, data) ==
    IF cls.cls = "_Msg"
    THEN [type |-> data.type]
    ELSE IF IsNone(data.payload)
    THEN [type |-> data.type, payload |-> PNone]
    ELSE LET v == model_validate(cls.payload_model, data.payload)
         IN  IF IsExc(v) THEN v ELSE [type |-> data.type, payload |-> v]

\* run_handler_function on the handlers of the example application:
\* the handler's return value and the client's topics after it ran
run_handler_function(handler, values, ts) ==
    CASE handler = "subscribe_to_topic" ->
            LET after == subscribe(ts, values.payload.topic)
            IN  [ result |-> [detail |-> "Subscribed", topics |-> after],
                  topics |-> after ]
      [] handler = "unsubscribe_from_topic" ->
            LET after == unsubscribe(ts, values.payload.topic)
            IN  [ result |-> [detail |-> "Unubscribed", topics |-> after],
                  topics |-> after ]
      [] handler = "alert_from_server" ->
            [result |-> values.payload, topics |-> ts]
      [] OTHER -> [result |-> PNone, topics |-> ts]

\* Broker.__call__, first half: resolve the route and bind the parameters
call_bind(rs, message, method, params) ==
    LET route == match_route(rs, message.type, method)
    IN  IF IsExc(route)
        THEN route
        ELSE LET values == convert_params(route, message, params)
             IN  IF IsExc(values)
                 THEN values
                 ELSE [route |-> route, values |-> values]

\* Broker.__call__, second half: wrap the handler's result
call_reply(route, message, result) ==
    LET cls == GetAttr(route, "response_payload")
    IN  IF IsExc(cls)
        THEN cls
        ELSE msg_validate(cls, [type |-> message.type, payload |-> result])

\* the record of one dispatch
NoDispatch == [status |-> "none"]

Running(message, method, bound) ==
    [ status |-> "running", message |-> message, method |-> method,
      route |-> bound.route, values |-> bound.values ]

\* a dispatch that ended: `invoked` tells whether the handler was called,
\* `returned` whether it returned (and then `result` is what it returned),
\* `outcome` is the reply envelope, PNone, or the exception raised
Done(message, method, route, invoked, returned, result, outcome) ==
    [ status |-> "done", message |-> message, method |-> method,
      route |-> route, invoked |-> invoked, returned |-> returned,
      result |-> result, outcome |-> outcome ]

NoRoute == [operation |-> None]

(***************************************************************************)
(* State.                                                                  *)
(***************************************************************************)
VARIABLES
    routes,                   \* Broker.router.routes
    heartbeat_interval,       \* FastWS.heartbeat_interval: << >> is None
    max_connection_lifespan,  \* FastWS.max_connection_lifespan: << >> is None
    auth_handler,             \* FastWS.auth_handler: None or a handler
    connections,              \* FastWS.connections: the uids registered
    pc,                       \* where each session's task is
    client,                   \* whether manage created the session's Client
    topics,                   \* Client.topics
    wsDead,                   \* the peer of the transport is gone
    sent,                     \* the frames written to each transport
    cur,                      \* the dispatch of each session (client_send)
    raised,                   \* the exception that ended each session
    authResult,               \* what _auth gave for each session
    bc,                       \* the request-driven call: server_send/broadcast
    ncalls,                   \* broadcasts made so far
    reg,                      \* the routers composed at import and their merges
    now,                      \* loop.time()
    heartbeat_cm,             \* serve's heartbeat scope: its deadline
    lifespan_cm,              \* serve's lifespan scope: its deadline
    idleSince                 \* when serve began or last got a message

vars ==
    << routes, heartbeat_interval, max_connection_lifespan, auth_handler,
       connections, pc, client, topics, wsDead, sent, cur, raised,
       authResult, bc, ncalls, reg, now, heartbeat_cm, lifespan_cm,
       idleSince >>

\* what is fixed once the application serves
config ==
    << routes, heartbeat_interval, max_connection_lifespan, auth_handler,
       reg >>

\* the clock and the deadlines of the sessions
clocks == << now, heartbeat_cm, lifespan_cm, idleSince >>

\* the request-driven call when none is running
NoTasks == [c \in Sessions |-> "none"]

IdleCall ==
    [ state |-> "idle", via |-> "none", topic |-> None, text |-> NotJson,
      tasks |-> NoTasks, aborting |-> FALSE, exc |-> NoExc,
      dispatch |-> NoDispatch, subscribed |-> {} ]

\* the constructor arguments of FastWS the runs are made with: the defaults
\* (no clock, no auth handler), and both clocks with an auth handler
Configs ==
    { [heartbeat_interval |-> << >>, max_connection_lifespan |-> << >>,
       auth_handler |-> None],
      [heartbeat_interval |-> << 1 >>, max_connection_lifespan |-> << 1 >>,
       auth_handler |-> "auth_handler"] }

\* the sub-routers composed at import (T1, T2) and the two parents they are
\* included into: AB includes T1 then T2, BA includes T2 then T1
Routers == {"T1", "T2"}

Parents == {"AB", "BA"}

Order(p) == IF p = "AB" THEN << "T1", "T2" >> ELSE << "T2", "T1" >>

\* OperationRouter(prefix=p1), OperationRouter(prefix=p2) and two empty
\* parents; q1, q2 are the prefix arguments T1 and T2 are included with
Composition(p1, q1, p2, q2) ==
    [ routers |-> [t \in Routers |->
                      OperationRouter(IF t = "T1" THEN p1 ELSE p2, << >>)],
      prefix |-> [t \in Routers |-> IF t = "T1" THEN q1 ELSE q2],
      parents |-> [p \in Parents |-> << >>],
      included |-> [p \in Parents |-> 0],
      exc |-> [n \in Routers \cup Parents |-> NoExc] ]

\* no router is being composed
Unmerged == Composition("", "", "", "")

\* asyncio.timeout(delay) entered at time t: its deadline (<< >>: none)
timeout(delay, t) == IF delay = << >> THEN << >> ELSE << t + delay[1] >>

\* the application once FastWS(...) is constructed and its routes are
\* registered: no connection, no call
StartWith(rs, configs) ==
    /\ routes = rs
    /\ \E c \in configs :
         /\ heartbeat_interval = c.heartbeat_interval
         /\ max_connection_lifespan = c.max_connection_lifespan
         /\ auth_handler = c.auth_handler
    /\ connections = {}
    /\ pc = [s \in Sessions |-> "Connecting"]
    /\ client = [s \in Sessions |-> FALSE]
    /\ topics = [s \in Sessions |-> {}]
    /\ wsDead = [s \in Sessions |-> FALSE]
    /\ sent = [s \in Sessions |-> << >>]
    /\ cur = [s \in Sessions |-> NoDispatch]
    /\ raised = [s \in Sessions |-> NoExc]
    /\ authResult = [s \in Sessions |-> "pending"]
    /\ bc = IdleCall
    /\ ncalls = 0
    /\ now = 0
    /\ heartbeat_cm = [s \in Sessions |-> << >>]
    /\ lifespan_cm = [s \in Sessions |-> << >>]
    /\ idleSince = [s \in Sessions |-> 0]

Start(configs) == StartWith(AppRoutes, configs)

Init == Start(Configs) /\ reg = Unmerged

(***************************************************************************)
(* application.py: connection registry, manage                             *)
(***************************************************************************)
\* FastWS._connect
connect(conns, uid) == conns \cup {uid}

\* _disconnect that clears the registry
disconnect_all(conns, uid) == {}

\* FastWS._disconnect
disconnect(conns, uid) == conns \ {uid}

\* FastWS._auth: without an auth handler the transport is accepted
auth(handler, outcome) == IF handler = None THEN "true" ELSE outcome

\* manage with the Client registered before _auth is consulted
manage_enter_registers_first(conns, uid, authed) == connect(conns, uid)

\* FastWS.manage up to its yield: the registry after it
manage_enter(conns, uid, authed) ==
    IF authed # "true" THEN conns ELSE connect(conns, uid)

\* manage with the _disconnect in an else clause instead of finally
manage_exit_unless_raised(conns, uid, exc) ==
    IF exc = NoExc THEN disconnect(conns, uid) ELSE conns

\* FastWS.manage after its yield (except / finally): the registry after it
manage_exit(conns, uid, exc) == disconnect(conns, uid)

\* a transport is accepted: manage runs _auth, creates and registers the
\* Client; the endpoint subscribes it to the topics of the query string and
\* enters serve
Connect(s, initials) ==
    /\ pc[s] = "Connecting"
    /\ \E outcome \in {"true", "false", "raise"}, initial \in initials :
         LET authed == auth(auth_handler, outcome)
         IN  /\ authResult' = [authResult EXCEPT ![s] = authed]
             /\ connections' = manage_enter(connections, s, authed)
             /\ IF authed = "true"
                THEN /\ client' = [client EXCEPT ![s] = TRUE]
                     /\ topics' = [topics EXCEPT ![s] = initial]
                     /\ pc' = [pc EXCEPT ![s] = "Active"]
                     /\ raised' = raised
                     /\ heartbeat_cm' = [heartbeat_cm EXCEPT ![s] =
                            timeout(heartbeat_interval, now)]
                     /\ lifespan_cm' = [lifespan_cm EXCEPT ![s] =
                            timeout(max_connection_lifespan, now)]
                     /\ idleSince' = [idleSince EXCEPT ![s] = now]
                ELSE /\ pc' = [pc EXCEPT ![s] = "Closed"]
                     /\ raised' = [raised EXCEPT ![s] =
                            IF authed = "raise" THEN ExcAuth ELSE NoExc]
                     /\ UNCHANGED << client, topics, heartbeat_cm,
                                     lifespan_cm, idleSince >>
    /\ UNCHANGED << config, now, wsDead, sent, cur, bc, ncalls >>

\* manage's finally: the session's Client is unregistered
Teardown(s) ==
    /\ pc[s] = "Closing"
    /\ connections' = manage_exit(connections, s, raised[s])
    /\ pc' = [pc EXCEPT ![s] = "Closed"]
    /\ UNCHANGED << config, clocks, client, topics, wsDead, sent, cur, raised,
                    authResult, bc, ncalls >>

(***************************************************************************)
(* application.py: serve, client_send, handle_exception                    *)
(***************************************************************************)
\* FastWS.handle_exception: builds a WebSocketException, raises `exc`
handle_exception(exc) ==
    LET error == [ Exc("WebSocketException", WS_1006_ABNORMAL_CLOSURE,
                       "Could not decode message")
                   EXCEPT !.notes =
                       (IF exc.kind = "ValidationError"
                        THEN {"Could not validate payload"} ELSE {}) \cup
                       (IF exc.kind = "NoMatchingOperation"
                        THEN {"No matching type"} ELSE {}) \cup
                       (IF exc.kind = "TimeoutError"
                        THEN {"Connection timed out. "} ELSE {}) ]
    IN  exc

\* the except clause of serve: what leaves serve when `exc` is raised in it
serve_except(exc) ==
    IF exc.kind \in {"ValueError", "ValidationError", "NoMatchingOperation",
                     "TimeoutError"}
    THEN handle_exception(exc)
    ELSE exc

\* the keyword context client_send passes to the dispatch
ClientParams(s) == [client |-> s, app |-> "FastWS"]

\* serve that goes on reading after an error has ended its loop
reading_after_error(position) == position \in {"Active", "Closing"}

\* serve reading while a dispatch is still in flight
reading_while_handling(position) == position \in {"Active", "Handling"}

\* where the task of serve takes the next frame: only at `async for message
\* in client`, which it reaches again when client_send has returned
reading(position) == position = "Active"

\* heartbeat_cm.reschedule that leaves the deadline as it is
reschedule_keeps(deadline, when) == deadline

\* asyncio.Timeout.reschedule(when)
reschedule(deadline, when) == << when >>

\* serve on a message the iterator yielded, before client_send: the
\* heartbeat deadline becomes loop.time() + heartbeat_interval
heartbeat(deadline, t) ==
    IF heartbeat_interval # << >>
    THEN reschedule(deadline, t + heartbeat_interval[1])
    ELSE deadline

\* a frame arrives: Client.__aiter__ parses it, serve reschedules the
\* heartbeat, client_send dispatches it up to the handler's invocation
Receive(s, frames) ==
    /\ reading(pc[s])
    /\ ~wsDead[s]
    /\ \E text \in frames :
         LET message == model_validate_json(text)
             bound == call_bind(routes, message, "SEND", ClientParams(s))
         IN  IF IsExc(message)
             THEN /\ raised' = [raised EXCEPT ![s] = serve_except(message)]
                  /\ pc' = [pc EXCEPT ![s] = "Closing"]
                  /\ cur' = cur
                  /\ UNCHANGED << heartbeat_cm, idleSince >>
             ELSE /\ heartbeat_cm' = [heartbeat_cm EXCEPT ![s] =
                         heartbeat(@, now)]
                  /\ idleSince' = [idleSince EXCEPT ![s] = now]
                  /\ IF IsExc(bound)
                     THEN /\ raised' = [raised EXCEPT ![s] =
                                 serve_except(bound)]
                          /\ pc' = [pc EXCEPT ![s] = "Closing"]
                          /\ cur' = [cur EXCEPT ![s] =
                                 Done(message, "SEND", NoRoute, FALSE, FALSE,
                                      PNone, bound)]
                     ELSE /\ pc' = [pc EXCEPT ![s] = "Handling"]
                          /\ cur' = [cur EXCEPT ![s] =
                                 Running(message, "SEND", bound)]
                          /\ raised' = raised
    /\ UNCHANGED << config, now, lifespan_cm, connections, client, topics,
                    wsDead, sent, authResult, bc, ncalls >>

\* client_send after the dispatch: a non-None reply is written to the client
client_send(log, reply) ==
    IF IsNone(reply)
    THEN log
    ELSE Append(log, [by |-> "client_send", text |-> model_dump_json(reply)])

\* the handler returns or raises; Broker.__call__ wraps its result and
\* client_send writes the reply
HandlerReturn(s) ==
    /\ pc[s] = "Handling"
    /\ \E fault \in BOOLEAN :
         LET d == cur[s]
             ran == run_handler_function(d.route.handler, d.values, topics[s])
             reply == call_reply(d.route, d.message, ran.result)
         IN  IF fault
             THEN /\ cur' = [cur EXCEPT ![s] =
                         Done(d.message, d.method, d.route, TRUE, FALSE,
                              PNone, ExcHandler)]
                  /\ raised' = [raised EXCEPT ![s] = serve_except(ExcHandler)]
                  /\ pc' = [pc EXCEPT ![s] = "Closing"]
                  /\ UNCHANGED << topics, sent >>
             ELSE /\ topics' = [topics EXCEPT ![s] = ran.topics]
                  /\ cur' = [cur EXCEPT ![s] =
                         Done(d.message, d.method, d.route, TRUE, TRUE,
                              ran.result, reply)]
                  /\ IF IsExc(reply)
                     THEN /\ raised' = [raised EXCEPT ![s] =
                                 serve_except(reply)]
                          /\ pc' = [pc EXCEPT ![s] = "Closing"]
                          /\ sent' = sent
                     ELSE /\ sent' = [sent EXCEPT ![s] =
                                 client_send(sent[s], reply)]
                          /\ pc' = [pc EXCEPT ![s] = "Active"]
                          /\ raised' = raised
    /\ UNCHANGED << config, clocks, connections, client, wsDead, authResult, bc,
                    ncalls >>

\* the peer goes away: the transport is dead from now on
PeerDrop(s) ==
    /\ pc[s] \in {"Active", "Handling"}
    /\ ~wsDead[s]
    /\ wsDead' = [wsDead EXCEPT ![s] = TRUE]
    /\ UNCHANGED << config, clocks, connections, pc, client, topics, sent, cur,
                    raised, authResult, bc, ncalls >>

\* the transport signals closure: iter_text ends and serve returns
ReadEnd(s) ==
    /\ pc[s] = "Active"
    /\ wsDead[s]
    /\ pc' = [pc EXCEPT ![s] = "Closing"]
    /\ UNCHANGED << config, clocks, connections, client, topics, wsDead, sent, cur,
                    raised, authResult, bc, ncalls >>

\* the clocks of serve's two asyncio.timeout scopes that are configured
Clocks ==
    (IF heartbeat_interval # << >> THEN {"heartbeat"} ELSE {}) \cup
    (IF max_connection_lifespan # << >> THEN {"lifespan"} ELSE {})

\* a deadline of serve fires: the task is cancelled where it is suspended
\* (the frame read, or the handler it awaits) and TimeoutError is raised
DeadlineFires(s) ==
    /\ pc[s] \in {"Active", "Handling"}
    /\ Clocks # {}
    /\ raised' = [raised EXCEPT ![s] = serve_except(ExcTimeout)]
    /\ pc' = [pc EXCEPT ![s] = "Closing"]
    /\ cur' = [cur EXCEPT ![s] =
           IF pc[s] = "Handling"
           THEN Done(cur[s].message, cur[s].method, cur[s].route, TRUE,
                     FALSE, PNone, ExcTimeout)
           ELSE cur[s]]
    /\ UNCHANGED << config, clocks, connections, client, topics, wsDead, sent,
                    authResult, bc, ncalls >>

(***************************************************************************)
(* application.py: broadcast, server_send                                  *)
(***************************************************************************)
\* broadcast without its filter: every registered client
recipients_unfiltered(conns, ts, topic) == conns

\* the filter of broadcast: the registered clients subscribed to the topic
recipients(conns, ts, topic) == {c \in conns : topic \in ts[c]}

\* a task of the TaskGroup has finished, one way or another
Finished(status) == status \in {"none", "done", "failed", "cancelled"}

\* tasks created and not awaited
TasksNotAwaited(tasks) == TRUE

\* the TaskGroup's exit: every task it holds has finished
AllTasksDone(tasks) == \A c \in Sessions : Finished(tasks[c])

\* TaskGroup._abort: every task that has not finished is cancelled
abort(tasks) ==
    [c \in Sessions |-> IF Finished(tasks[c]) THEN tasks[c] ELSE "cancelled"]

\* the sessions that, right now, are registered with the topic in their
\* topics (recorded when broadcast is called)
Subscribed(topic) ==
    {c \in Sessions : c \in connections /\ topic \in topics[c]}

\* broadcast whose loop stops after the first create_task
broadcast_first_only(topic, message, via, dispatch) ==
    LET selected == recipients(connections, topics, topic)
        first == IF selected = {} THEN {} ELSE {CHOOSE c \in selected : TRUE}
    IN  [ state |-> "running", via |-> via, topic |-> topic,
          text |-> model_dump_json(message),
          tasks |-> [c \in Sessions |->
                        IF c \in first THEN "created" ELSE "none"],
          aborting |-> FALSE, exc |-> NoExc, dispatch |-> dispatch,
          subscribed |-> Subscribed(topic) ]

\* broadcast up to the TaskGroup's exit: one task per recipient
broadcast(topic, message, via, dispatch) ==
    [ state |-> "running", via |-> via, topic |-> topic,
      text |-> model_dump_json(message),
      tasks |-> [c \in Sessions |->
                    IF c \in recipients(connections, topics, topic)
                    THEN "created" ELSE "none"],
      aborting |-> FALSE, exc |-> NoExc, dispatch |-> dispatch,
      subscribed |-> Subscribed(topic) ]

\* a request-driven call that ended without reaching the TaskGroup
ended(via, topic, dispatch, exc) ==
    [ IdleCall EXCEPT !.state = IF exc = NoExc THEN "returned" ELSE "raised",
                      !.via = via, !.topic = topic, !.exc = exc,
                      !.dispatch = dispatch ]

\* a caller (an HTTP endpoint) calls broadcast(topic, message)
BroadcastCall ==
    /\ bc.state # "running"
    /\ ncalls < MaxCalls
    /\ \E topic \in Topics, message \in BroadcastMessages :
         bc' = broadcast(topic, message, "broadcast", NoDispatch)
    /\ ncalls' = ncalls + 1
    /\ UNCHANGED << config, clocks, connections, pc, client, topics, wsDead, sent,
                    cur, raised, authResult >>

\* a caller calls server_send(message, topic=topic): the dispatch with
\* method RECEIVE, then broadcast of a reply that is not None
ServerSendOf(messages, to) ==
    /\ bc.state # "running"
    /\ ncalls < MaxCalls
    /\ \E message \in messages, topic \in to, fault \in BOOLEAN :
         LET bound == call_bind(routes, message, "RECEIVE", [app |-> "FastWS"])
             ran == run_handler_function(bound.route.handler, bound.values, {})
             reply == call_reply(bound.route, message, ran.result)
         IN  bc' =
               IF IsExc(bound)
               THEN ended("server_send", topic,
                          Done(message, "RECEIVE", NoRoute, FALSE, FALSE,
                               PNone, bound), bound)
               ELSE IF fault
               THEN ended("server_send", topic,
                          Done(message, "RECEIVE", bound.route, TRUE, FALSE,
                               PNone, ExcHandler), ExcHandler)
               ELSE IF IsExc(reply)
               THEN ended("server_send", topic,
                          Done(message, "RECEIVE", bound.route, TRUE, TRUE,
                               ran.result, reply), reply)
               ELSE IF IsNone(reply)
               THEN ended("server_send", topic,
                          Done(message, "RECEIVE", bound.route, TRUE, TRUE,
                               ran.result, reply), NoExc)
               ELSE broadcast(topic, reply, "server_send",
                              Done(message, "RECEIVE", bound.route, TRUE,
                                   TRUE, ran.result, reply))
    /\ ncalls' = IF bc'.state = "running" THEN ncalls + 1 ELSE ncalls
    /\ UNCHANGED << config, clocks, connections, pc, client, topics, wsDead, sent,
                    cur, raised, authResult >>

ServerSend(to) == ServerSendOf(ServerMessages, to)

\* Client.send raises on a transport whose peer is gone or that is closed
Broken(c) == wsDead[c] \/ pc[c] = "Closed"

Delivered(log, text) == Append(log, [by |-> "broadcast", text |-> text])

\* a task of the TaskGroup runs its first step of client.send(msg): the
\* frame is written, or send raises, or send suspends in the transport
TaskStep(c) ==
    /\ bc.state = "running"
    /\ bc.tasks[c] = "created"
    /\ \E suspends \in BOOLEAN :
         LET status == IF bc.aborting THEN "cancelled"
                       ELSE IF suspends THEN "sending"
                       ELSE IF Broken(c) THEN "failed" ELSE "done"
         IN  /\ bc' = [bc EXCEPT !.tasks[c] = status]
             /\ sent' = [sent EXCEPT ![c] =
                    IF status = "done" THEN Delivered(sent[c], bc.text)
                    ELSE sent[c]]
    /\ UNCHANGED << config, clocks, connections, pc, client, topics, wsDead, cur,
                    raised, authResult, ncalls >>

\* a suspended send resumes: the frame is written or send raises
TaskFinish(c) ==
    /\ bc.state = "running"
    /\ bc.tasks[c] = "sending"
    /\ bc' = [bc EXCEPT !.tasks[c] = IF Broken(c) THEN "failed" ELSE "done"]
    /\ sent' = [sent EXCEPT ![c] =
           IF Broken(c) THEN sent[c] ELSE Delivered(sent[c], bc.text)]
    /\ UNCHANGED << config, clocks, connections, pc, client, topics, wsDead, cur,
                    raised, authResult, ncalls >>

\* TaskGroup._on_task_done of a task that raised: the group aborts. The
\* callback runs after the first step of every task created before it.
TaskGroupAbort ==
    /\ bc.state = "running"
    /\ ~bc.aborting
    /\ \E c \in Sessions : bc.tasks[c] = "failed"
    /\ \A c \in Sessions : bc.tasks[c] # "created"
    /\ bc' = [bc EXCEPT !.aborting = TRUE, !.tasks = abort(bc.tasks)]
    /\ UNCHANGED << config, clocks, connections, pc, client, topics, wsDead, sent,
                    cur, raised, authResult, ncalls >>

\* the TaskGroup exits: broadcast returns, or raises the group of the
\* exceptions its tasks raised
BroadcastReturn ==
    /\ bc.state = "running"
    /\ AllTasksDone(bc.tasks)
    /\ LET errors == \E c \in Sessions : bc.tasks[c] = "failed"
       IN  bc' = [bc EXCEPT
                    !.state = IF errors THEN "raised" ELSE "returned",
                    !.exc = IF errors
                            THEN Exc("ExceptionGroup", 0,
                                     "unhandled errors in a TaskGroup")
                            ELSE NoExc]
    /\ UNCHANGED << config, clocks, connections, pc, client, topics, wsDead, sent,
                    cur, raised, authResult, ncalls >>

(***************************************************************************)
(* The sessions and the dispatch: two peers, every kind of inbound frame,  *)
(* and server_send calls.                                                  *)
(***************************************************************************)
Peers == {"A", "B"}

Next ==
    \/ \E s \in Peers : Connect(s, {{}, {"foo"}})
    \/ \E s \in Peers : Receive(s, InboundFrames)
    \/ \E s \in Peers : HandlerReturn(s)
    \/ \E s \in Peers : PeerDrop(s)
    \/ \E s \in Peers : ReadEnd(s)
    \/ \E s \in Peers : DeadlineFires(s)
    \/ \E s \in Peers : Teardown(s)
    \/ ServerSend({"foo"})

Spec == Init /\ [][Next]_vars

(***************************************************************************)
(* The broadcaster: three connections, their subscriptions and their       *)
(* transports, and broadcast calls.                                        *)
(***************************************************************************)
\* the topics of the query string a peer connects with
Subscriptions == {{}, {"foo"}, {"foo", "bar"}}

InitBroadcast ==
    /\ Start({[heartbeat_interval |-> << >>,
               max_connection_lifespan |-> << >>, auth_handler |-> None]})
    /\ reg = Unmerged

NextBroadcast ==
    \/ \E s \in Sessions : Connect(s, Subscriptions)
    \/ \E s \in Sessions : PeerDrop(s)
    \/ \E s \in Sessions : ReadEnd(s)
    \/ \E s \in Sessions : Teardown(s)
    \/ BroadcastCall
    \/ \E c \in Sessions : TaskStep(c)
    \/ \E c \in Sessions : TaskFinish(c)
    \/ TaskGroupAbort
    \/ BroadcastReturn

BroadcastSpec == InitBroadcast /\ [][NextBroadcast]_vars

(***************************************************************************)
(* The composition of the route tables at import: decorator calls on two   *)
(* sub-routers, then include_router of both into a parent, in either       *)
(* order. An AssertionError ends the composition it is raised in.          *)
(***************************************************************************)
\* a decorator call @router.send(operation, reply=reply) or
\* @router.recv(operation) on a handler: the add_route it makes
Call(operation, handler, method, reply) ==
    [operation |-> operation, handler |-> handler, method |-> method,
     reply |-> reply]

\* the decorator calls the modules of the sub-routers make
Decorated(t) ==
    IF t = "T1"
    THEN { Call("ping", "send_ping", "SEND", "pong"),
           Call("subscribe", "subscribe_to_topic", "SEND",
                "subscribe.response"),
           Call("alert", "alert_from_server", "RECEIVE", None),
           Call("pong", "send_ping", "SEND", None),
           Call("subscribe", "subscribe_to_topic", "SEND", None),
           Call("ping", "send_ping", "RECEIVE", None) }
    ELSE { Call("ping", "send_ping", "SEND", "pong"),
           Call("alert", "alert_from_server", "RECEIVE", None),
           Call("echo", "send_ping", "SEND", "ping") }

\* everything but the composition and the clocks
serving ==
    << routes, heartbeat_interval, max_connection_lifespan, auth_handler,
       connections, pc, client, topics, wsDead, sent, cur, raised,
       authResult, bc, ncalls >>

\* no include_router was called yet
Composing == \A p \in Parents : reg.included[p] = 0

\* none of the named compositions has raised
Imported(names) == \A n \in names : reg.exc[n] = NoExc

\* a decorator of sub-router t runs: add_route on its routes
Register(t) ==
    /\ Composing
    /\ Imported(Routers)
    /\ Len(reg.routers[t].routes) < MaxRoutes
    /\ \E c \in Decorated(t) :
         LET call == add_route_call(reg.routers[t].routes, c.operation,
                                    c.handler, c.method, c.reply)
         IN  reg' = [reg EXCEPT !.routers[t].routes = call.routes,
                                !.exc[t] = call.exc]
    /\ UNCHANGED << serving, clocks >>

\* parent p calls include_router on the next sub-router of its order
Include(p) ==
    /\ Imported(Routers \cup {p})
    /\ reg.included[p] < Len(Order(p))
    /\ LET t == Order(p)[reg.included[p] + 1]
           merged == include_router(reg.parents[p], reg.routers[t],
                                    reg.prefix[t])
       IN  reg' = [reg EXCEPT !.parents[p] = merged.routes,
                              !.included[p] = @ + 1,
                              !.exc[p] = merged.exc]
    /\ UNCHANGED << serving, clocks >>

InitRouter ==
    /\ Start({[heartbeat_interval |-> << >>,
               max_connection_lifespan |-> << >>, auth_handler |-> None]})
    /\ \E p1 \in {"feature_0.", "feature_1."}, q2 \in {"feature_0.", "v1."} :
         reg = Composition(p1, "", "", q2)

NextRouter ==
    \/ \E t \in Routers : Register(t)
    \/ \E p \in Parents : Include(p)

RouterSpec == InitRouter /\ [][NextRouter]_vars

(***************************************************************************)
(* The dispatch alone: a route table with a RECEIVE operation whose        *)
(* handler takes the client, and envelopes whose type is near a registered *)
(* operation or whose payload does not validate.                           *)
(***************************************************************************)
DispatchRoutes ==
    add_route(
      add_route(
        add_route(
          add_route(<< >>, "ping", "application_ping", "SEND", "pong"),
          "subscribe", "subscribe_to_topic", "SEND", "subscribe.response"),
        "unsubscribe", "unsubscribe_from_topic", "RECEIVE", None),
      "alert", "alert_from_server", "RECEIVE", None)

\* the frames a peer sends
DispatchFrames ==
    { Text([type |-> "ping"]),
      Text([type |-> "pin"]),
      Text([type |-> "ping.all"]),
      Text([type |-> "ubscribe", payload |-> [topic |-> "foo"]]),
      Text([type |-> "subscribe", payload |-> [topic |-> "foo"]]),
      Text([type |-> "subscribe", payload |-> [foo |-> "bar"]]),
      Text([type |-> "subscribe"]),
      Text([type |-> "unsubscribe", payload |-> [topic |-> "foo"]]) }

\* the messages a request-driven caller hands to server_send
DispatchMessages ==
    { Message("alert", [message |-> "foobar"]),
      Message("alert", [foo |-> "bar"]),
      Message("aler", [message |-> "foobar"]),
      Message("ping", PNone),
      Message("unsubscribe", [topic |-> "foo"]),
      Message("unsubscribe", [foo |-> "bar"]) }

InitDispatch ==
    /\ StartWith(DispatchRoutes,
                 {[heartbeat_interval |-> << >>,
                   max_connection_lifespan |-> << >>, auth_handler |-> None]})
    /\ reg = Unmerged

NextDispatch ==
    \/ \E s \in Peers : Connect(s, {{}, {"foo"}})
    \/ \E s \in Peers : Receive(s, DispatchFrames)
    \/ \E s \in Peers : HandlerReturn(s)
    \/ \E s \in Peers : Teardown(s)
    \/ ServerSendOf(DispatchMessages, {"foo"})

DispatchSpec == InitDispatch /\ [][NextDispatch]_vars

(***************************************************************************)
(* Sessions that end with an error while a broadcast is running.           *)
(***************************************************************************)
\* the frames of these runs: a payload that does not validate, and an
\* operation that is not registered
FailingFrames ==
    { Text([type |-> "subscribe", payload |-> [foo |-> "bar"]]),
      Text([type |-> "feature_0.not_an_operation",
            payload |-> [foo |-> "bar"]]) }

InitConcurrent ==
    /\ Start({[heartbeat_interval |-> << 1 >>,
               max_connection_lifespan |-> << >>, auth_handler |-> None]})
    /\ reg = Unmerged

NextConcurrent ==
    \/ \E s \in Peers : Connect(s, {{"foo"}})
    \/ \E s \in Peers : Receive(s, FailingFrames)
    \/ \E s \in Peers : DeadlineFires(s)
    \/ \E s \in Peers : Teardown(s)
    \/ BroadcastCall
    \/ \E c \in Peers : TaskStep(c)
    \/ \E c \in Peers : TaskFinish(c)
    \/ TaskGroupAbort
    \/ BroadcastReturn

ConcurrentSpec == InitConcurrent /\ [][NextConcurrent]_vars

(***************************************************************************)
(* The sessions under the clock: loop.time() advances, and a deadline of   *)
(* serve fires when the clock reaches it.                                  *)
(***************************************************************************)
\* the deadline (<< >>: none) is reached
Reached(deadline) == deadline # << >> /\ now >= deadline[1]

\* serve with the heartbeat scope alone
Due_heartbeat_only(s) == Reached(heartbeat_cm[s])

\* one of the two asyncio.timeout scopes of serve has reached its deadline
Due(s) == Reached(heartbeat_cm[s]) \/ Reached(lifespan_cm[s])

\* the scope's timer cancels the task of serve
Expire(s) == Due(s) /\ DeadlineFires(s)

\* the clock advances; a timer that is due runs before it does
Tick ==
    /\ now < MaxTime
    /\ \A s \in Sessions : pc[s] \in {"Active", "Handling"} => ~Due(s)
    /\ now' = now + 1
    /\ UNCHANGED << serving, reg, heartbeat_cm, lifespan_cm, idleSince >>

\* the constructor arguments of the timed runs: each clock absent or set
TimedConfigs ==
    { [heartbeat_interval |-> h, max_connection_lifespan |-> l,
       auth_handler |-> None] : h \in {<< >>, << 2 >>},
                               l \in {<< >>, << 2 >>, << 3 >>} }

\* the frames of the timed runs: an operation, and one that is not
TimedFrames ==
    { Text([type |-> "ping"]),
      Text([type |-> "feature_0.not_an_operation",
            payload |-> [foo |-> "bar"]]) }

InitTimed == Start(TimedConfigs) /\ reg = Unmerged

NextTimed ==
    \/ \E s \in Peers : Connect(s, {{}})
    \/ \E s \in Peers : Receive(s, TimedFrames)
    \/ \E s \in Peers : HandlerReturn(s)
    \/ \E s \in Peers : Expire(s)
    \/ \E s \in Peers : Teardown(s)
    \/ Tick

TimedSpec == InitTimed /\ [][NextTimed]_vars

(***************************************************************************)
(* Properties.                                                             *)
(***************************************************************************)
\* the dispatches that have ended, of the sessions and of server_send
Dispatches ==
    {d \in {cur[s] : s \in Sessions} \cup {bc.dispatch} : d.status = "done"}

\* the dispatches whose handler is in flight
InFlight == {d \in {cur[s] : s \in Sessions} : d.status = "running"}

\* the (type, direction) pair is registered in the route table
Registered(type, method) ==
    \E i \in 1..Len(routes) :
        routes[i].operation = type /\ routes[i].method = method

\* the frames client_send wrote to a session's transport
Replies(s) ==
    LET own == SelectSeq(sent[s], LAMBDA e : e.by = "client_send")
    IN  [i \in 1..Len(own) |-> own[i].text]

\* the tasks a broadcast launched
Launched == {c \in Sessions : bc.tasks[c] # "none"}

\* C1: a session that is Closed has no entry in FastWS.connections, whatever
\* ended it (transport close, parse error, NoMatchingOperation, validation
\* error, timeout, handler fault).
C1_ClosedIsUnregistered ==
    \A s \in Sessions : pc[s] = "Closed" => s \notin connections

\* two registered sessions have ended, one by a timeout and one by
\* NoMatchingOperation
C1_Witness ==
    \E s, t \in Sessions :
        /\ pc[s] = "Closed" /\ client[s] /\ raised[s].kind = "TimeoutError"
        /\ pc[t] = "Closed" /\ client[t]
        /\ raised[t].kind = "NoMatchingOperation"

\* C2: when _auth returns false or raises, the session is Closed at once, no
\* Client exists for it, the step leaves FastWS.connections as it was, the
\* session never has an entry in it and nothing is dispatched for it.
C2_AuthFailureLeavesNoTrace ==
    [][\A s \in Sessions :
          authResult'[s] \in {"false", "raise"} =>
              /\ pc'[s] = "Closed"
              /\ ~client'[s]
              /\ s \notin connections'
              /\ cur'[s] = NoDispatch
              /\ (authResult[s] = "pending" => connections' = connections)
      ]_vars

\* one session was refused by the auth handler, and for another the
\* handler raised
C2_Witness ==
    /\ \E s \in Sessions : authResult[s] = "false" /\ pc[s] = "Closed"
    /\ \E s \in Sessions : authResult[s] = "raise" /\ pc[s] = "Closed"

\* C6: a dispatch of a (type, direction) pair that is not registered fails
\* with NoMatchingOperation and invokes no handler (none has run, none is
\* in flight).
C6_UnregisteredNeverInvokes ==
    /\ \A d \in Dispatches :
           ~Registered(d.message.type, d.method) =>
               d.outcome.kind = "NoMatchingOperation" /\ ~d.invoked
    /\ \A d \in InFlight : Registered(d.message.type, d.method)

\* a client sent an operation registered for RECEIVE only, and server_send
\* was given an operation registered for SEND only
C6_Witness ==
    /\ \E s \in Sessions :
           /\ cur[s].status = "done"
           /\ cur[s].message.type = "alert"
           /\ cur[s].outcome = ExcNoMatch
    /\ bc.dispatch.status = "done"
    /\ bc.dispatch.message.type = "ping"
    /\ bc.dispatch.outcome = ExcNoMatch

\* C7: with the SEND route ping / reply pong registered, a session whose
\* dispatch of {"type": "ping"} has ended has exactly one reply on its
\* transport, {"type": "pong"}, and no other transport has one.
C7_PingYieldsOnePong ==
    \A s \in Sessions :
        ( /\ \E i \in 1..Len(routes) :
                 /\ routes[i].operation = "ping"
                 /\ routes[i].method = "SEND"
                 /\ routes[i].reply_operation = "pong"
          /\ cur[s].status = "done"
          /\ cur[s].message.type = "ping"
          /\ cur[s].returned )
        => /\ Replies(s) = << Text([type |-> "pong"]) >>
           /\ \A t \in Sessions \ {s} :
                  cur[t].status = "none" => Replies(t) = << >>

\* C8: a dispatch on a route with a declared result type whose handler
\* returned gives a reply envelope whose type is the route's reply-operation
\* id and whose payload is the handler's return value.
C8_ReplyCarriesReplyOperation ==
    \A d \in Dispatches :
        (d.returned /\ d.route.response_model # None)
        => /\ ~IsExc(d.outcome)
           /\ d.outcome.type = d.route.reply_operation
           /\ d.outcome.payload = d.result

\* C9: a dispatch on a route whose handler declares no result type returns
\* None once the handler has returned.
C9_NoResultTypeGivesNone ==
    \A d \in Dispatches :
        (d.returned /\ d.route.response_model = None) => d.outcome = PNone

\* C10: a session ended by an envelope whose type matches no SEND operation
\* is closed with code 1003 and a reason that says "No matching type".
C10_UnknownTypeCloses1003 ==
    \A s \in Sessions :
        ( /\ pc[s] \in {"Closing", "Closed"}
          /\ cur[s].status = "done"
          /\ cur[s].outcome = ExcNoMatch )
        => /\ raised[s].code = WS_1003_UNSUPPORTED_DATA
           /\ \/ raised[s].reason = "No matching type"
              \/ "No matching type" \in raised[s].notes

\* C3: once a broadcast has ended, the delivery to each subscriber has run to
\* its own outcome (written, or failed on its own transport): none was
\* cancelled because another one failed.
C3_FailureIsIsolated ==
    bc.state \in {"returned", "raised"} =>
        \A c \in bc.subscribed : bc.tasks[c] \in {"done", "failed"}

\* C4: a broadcast launches a delivery to exactly the connections that were
\* registered with the topic in their topics when it was called, and a frame
\* is only ever written, by a broadcast, to one of those.
C4_RecipientsAreSubscribers ==
    /\ [](bc.state # "idle" => Launched = bc.subscribed)
    /\ [][\A c \in Sessions :
              sent'[c] # sent[c] =>
                  /\ c \in bc.subscribed
                  /\ sent'[c] = Append(sent[c],
                                       [by |-> "broadcast", text |-> bc.text])
         ]_vars

\* a broadcast to foo has returned: A and B, subscribed, have the frame; C,
\* registered and not subscribed, has none
C4_Witness ==
    /\ bc.state = "returned"
    /\ bc.topic = "foo"
    /\ bc.subscribed = {"A", "B"}
    /\ Len(sent["A"]) = 1 /\ Len(sent["B"]) = 1
    /\ "C" \in connections
    /\ sent["C"] = << >>

\* C5: when broadcast has returned (or raised), every delivery task it
\* launched has finished: written, failed or cancelled.
C5_ReturnedMeansAllFinished ==
    bc.state \in {"returned", "raised"} =>
        \A c \in Launched : bc.tasks[c] \in {"done", "failed", "cancelled"}

\* a broadcast with two deliveries at least has ended, one of them failed
C5_Witness ==
    /\ bc.state \in {"returned", "raised"}
    /\ Cardinality(Launched) >= 2
    /\ \E c \in Launched : bc.tasks[c] = "failed"
    /\ \E c \in Launched : bc.tasks[c] = "done"

(***************************************************************************)
(* Properties of the composition of the route tables.                      *)
(***************************************************************************)
\* the id an operation or reply operation of sub-router t has in a parent
Prefixed(t, id) == reg.prefix[t] \o reg.routers[t].prefix \o id

\* the (operation, direction) pairs a routes list resolves
Resolvable(rs) == {<< r.operation, r.method >> : r \in Range(rs)}

\* the ids under which the operations of sub-router t resolve once merged
MergedIds(t) ==
    {Prefixed(t, r.operation) : r \in Range(reg.routers[t].routes)}

\* no two routes of the list share an (operation, direction) pair
UniquePairs(rs) ==
    \A i, j \in 1..Len(rs) :
        (rs[i].operation = rs[j].operation /\ rs[i].method = rs[j].method)
            => i = j

\* a route of sub-router t has, once prefixed, an operation or a reply
\* operation that is among the operations and reply operations of rs
Collides(t, rs) ==
    \E r \in Range(reg.routers[t].routes) :
        \/ Prefixed(t, r.operation) \in existing_operations(rs)
        \/ /\ r.reply_operation # None
           /\ Prefixed(t, r.reply_operation) \in existing_operations(rs)

\* C11: a registration whose operation or reply operation equals an
\* operation or reply operation already in the table fails: a route that
\* add_route appends collides with nothing that was there, an include_router
\* of a sub-router with a colliding route raises and leaves the routes of
\* the parent as they were, and no routes list ever holds two routes with
\* the same (operation, direction) pair.
C11_DuplicateRegistrationFails ==
    [][ /\ \A t \in Routers :
             LET before == reg.routers[t].routes
                 after == reg'.routers[t].routes
             IN  Len(after) > Len(before) =>
                   LET r == after[Len(after)]
                   IN  /\ r.operation \notin existing_operations(before)
                       /\ r.reply_operation # None =>
                             r.reply_operation \notin
                                 existing_operations(before)
        /\ \A p \in Parents :
             reg'.included[p] > reg.included[p] =>
               LET t == Order(p)[reg'.included[p]]
               IN  Collides(t, reg.parents[p]) =>
                     /\ reg'.exc[p] # NoExc
                     /\ reg'.parents[p] = reg.parents[p]
        /\ \A t \in Routers : UniquePairs(reg'.routers[t].routes)
        /\ \A p \in Parents : UniquePairs(reg'.parents[p])
      ]_vars

\* C12: once a parent has called include_router on the first sub-router of
\* its order (its routes list was empty), every route of that sub-router
\* resolves in the parent under prefix + router.prefix + operation, with the
\* same direction and the same handler.
C12_MergedRoutesResolveUnderPrefix ==
    \A p \in Parents :
        reg.included[p] >= 1 =>
          LET t == Order(p)[1]
          IN  \A r \in Range(reg.routers[t].routes) :
                  \E q \in Range(reg.parents[p]) :
                      /\ q.operation = Prefixed(t, r.operation)
                      /\ q.method = r.method
                      /\ q.handler = r.handler

\* C13: once a parent has included the first sub-router of its order
\* without an error, every SEND route of the sub-router that has a reply
\* operation R is, in the parent, a route whose reply operation is
\* prefix + router.prefix + R.
C13_MergedRoutesKeepPrefixedReply ==
    \A p \in Parents :
        (reg.included[p] >= 1 /\ reg.exc[p] = NoExc) =>
          LET t == Order(p)[1]
          IN  \A r \in Range(reg.routers[t].routes) :
                  (r.method = "SEND" /\ r.reply_operation # None) =>
                    \E q \in Range(reg.parents[p]) :
                        /\ q.operation = Prefixed(t, r.operation)
                        /\ q.reply_operation =
                               Prefixed(t, r.reply_operation)

\* the composition of parent p is over: both sub-routers included, or an
\* AssertionError raised
Composed(p) == reg.included[p] = Len(Order(p)) \/ reg.exc[p] # NoExc

\* C14: when the operations of T1 and T2 resolve under disjoint ids,
\* including T1 then T2 and including T2 then T1 into an empty parent end
\* alike: either both raise, or both complete and the two parents resolve
\* the same set of (operation, direction) pairs.
C14_MergeOrderIsImmaterial ==
    ( /\ MergedIds("T1") \cap MergedIds("T2") = {}
      /\ Composed("AB")
      /\ Composed("BA") ) =>
        /\ (reg.exc["AB"] = NoExc) <=> (reg.exc["BA"] = NoExc)
        /\ reg.exc["AB"] = NoExc =>
              Resolvable(reg.parents["AB"]) = Resolvable(reg.parents["BA"])

\* both orders completed on two sub-routers that each hold a route, with
\* ids that do not meet
C14_Witness ==
    /\ MergedIds("T1") \cap MergedIds("T2") = {}
    /\ \A t \in Routers : Len(reg.routers[t].routes) >= 1
    /\ \A p \in Parents :
          /\ reg.included[p] = Len(Order(p))
          /\ reg.exc[p] = NoExc
          /\ Len(reg.parents[p]) =
                Len(reg.routers["T1"].routes) + Len(reg.routers["T2"].routes)
    /\ reg.parents["AB"] # reg.parents["BA"]

(***************************************************************************)
(* Properties of the sessions under the clock.                             *)
(***************************************************************************)
\* the task of the session is inside serve
InServe(s) == pc[s] \in {"Active", "Handling"}

C16_LifespanDeadlineIsFixed ==
    /\ [](\A s \in Sessions :
            (InServe(s) /\ lifespan_cm[s] # << >>) =>
                now <= lifespan_cm[s][1])
    /\ [][\A s \in Sessions :
            /\ (pc[s] = "Connecting" /\ pc'[s] = "Active") =>
                  lifespan_cm'[s] = timeout(max_connection_lifespan, now)
            /\ pc[s] # "Connecting" => lifespan_cm'[s] = lifespan_cm[s]
       ]_vars

\* a session whose heartbeat deadline a message had moved past its lifespan
\* deadline was ended by a TimeoutError at the lifespan deadline
C16_Witness ==
    \E s \in Sessions :
        /\ lifespan_cm[s] # << >>
        /\ heartbeat_cm[s] # << >>
        /\ heartbeat_cm[s][1] > lifespan_cm[s][1]
        /\ now = lifespan_cm[s][1]
        /\ pc[s] = "Closing"
        /\ raised[s].kind = "TimeoutError"

\* C17: a session has at most one dispatch in flight: while a dispatch is
\* running, the only change to the session's dispatch is the end of that
\* same message's dispatch, and a dispatch begins only from the frame read
\* (Active) with none running.
C17_OneDispatchInFlight ==
    [][\A s \in Sessions :
          /\ cur[s].status = "running" =>
                \/ cur'[s] = cur[s]
                \/ /\ cur'[s].status = "done"
                   /\ cur'[s].message = cur[s].message
          /\ (cur'[s] # cur[s] /\ cur[s].status # "running") =>
                pc[s] = "Active"
      ]_vars

\* a dispatch is in flight and the clock has advanced since its message was
\* read: nothing else was read on the session meanwhile
C17_Witness ==
    \E s \in Sessions :
        /\ pc[s] = "Handling"
        /\ cur[s].status = "running"
        /\ now > idleSince[s]

\* C18: a handler that was invoked is not cancelled by a deadline of serve:
\* its dispatch ends because the handler returned or because it raised
\* itself.
C18_DeadlineSparesHandler ==
    \A s \in Sessions :
        (cur[s].status = "done" /\ cur[s].invoked) =>
            (cur[s].returned \/ cur[s].outcome = ExcHandler)

(***************************************************************************)
(* Properties of server_send and of the errors that end serve.             *)
(***************************************************************************)
\* C19: a server_send whose RECEIVE handler returned a result broadcasts the
\* reply: no exception, one task per connection that was registered and
\* subscribed to the topic, and a frame whose type is the route's operation
\* and whose payload is the handler's result.
C19_ServerSendBroadcastsReply ==
    ( /\ bc.via = "server_send"
      /\ bc.dispatch.status = "done"
      /\ bc.dispatch.returned
      /\ ~IsNone(bc.dispatch.result) ) =>
        /\ bc.exc = NoExc
        /\ bc.state \in {"running", "returned"}
        /\ Launched = bc.subscribed
        /\ bc.text = Text(Message(bc.dispatch.route.operation,
                                  bc.dispatch.result))

\* C20: the error that ends a session because of a timeout carries a close
\* code different from the one of an error that ends a session because of
\* a payload that does not validate or of an unknown operation.
C20_TimeoutCloseCodeDiffers ==
    \A s, t \in Sessions :
        ( /\ raised[s].kind = "TimeoutError"
          /\ raised[t].kind \in {"ValidationError", "NoMatchingOperation"} )
            => raised[s].code # raised[t].code

(***************************************************************************)
(* Properties of a session after the error that ends it.                   *)
(***************************************************************************)
\* C21: once the task of a session has left serve (a parse failure, a
\* NoMatchingOperation, a validation failure, a timeout or any other end),
\* its dispatch record and the replies client_send wrote never change again
\* and the exception that ended it stays; the session only goes on to
\* Closed, and Closed is never left.
C21_NothingAfterTerminatingError ==
    [][\A s \in Sessions :
          pc[s] \in {"Closing", "Closed"} =>
              /\ cur'[s] = cur[s]
              /\ Replies(s)' = Replies(s)
              /\ raised'[s] = raised[s]
              /\ pc'[s] \in {"Closing", "Closed"}
              /\ pc[s] = "Closed" => pc'[s] = "Closed"
      ]_vars

\* a session ended by an unknown operation and one ended by a timeout are
\* Closed while their peers are still there
C21_Witness ==
    \E s, t \in Sessions :
        /\ pc[s] = "Closed" /\ pc[t] = "Closed"
        /\ raised[s].kind = "NoMatchingOperation"
        /\ raised[t].kind = "TimeoutError"
        /\ ~wsDead[s] /\ ~wsDead[t]

(***************************************************************************)
(* Properties of the topics of a connection.                               *)
(***************************************************************************)
\* C22: the topics of a connection behave as a set (subscribe makes the
\* topic a member, a second subscribe changes nothing, unsubscribe removes
\* it and changes nothing when it is absent, and neither touches another
\* topic), and a subscribe whose handler returned has written a reply whose
\* payload reports the topics the connection has after it.
C22_SubscribeReplyReportsTopics ==
    /\ \A s \in Sessions, t \in Topics \cup {"foobar"} :
          LET ts == topics[s]
          IN  /\ t \in subscribe(ts, t)
              /\ subscribe(subscribe(ts, t), t) = subscribe(ts, t)
              /\ subscribe(ts, t) \ {t} = ts \ {t}
              /\ t \notin unsubscribe(ts, t)
              /\ unsubscribe(ts, t) \ {t} = ts \ {t}
              /\ t \notin ts => unsubscribe(ts, t) = ts
    /\ \A s \in Sessions :
          ( /\ cur[s].status = "done"
            /\ cur[s].invoked
            /\ cur[s].returned
            /\ cur[s].route.handler = "subscribe_to_topic" ) =>
              \E i \in 1..Len(Replies(s)) :
                  Replies(s)[i].obj.payload.topics = topics[s]

(***************************************************************************)
(* Properties of the dispatch.                                             *)
(***************************************************************************)
\* the dispatches that have ended or whose handler is in flight
AllDispatches == Dispatches \cup InFlight

\* the route registered under exactly this operation and direction
RouteOf(type, method) ==
    CHOOSE r \in Range(routes) : r.operation = type /\ r.method = method

\* the payload of the message lacks a field the payload model of the route
\* requires
PayloadInvalid(d) ==
    LET model == RouteOf(d.message.type, d.method).payload.payload_model
    IN  /\ model # None
        /\ \/ IsNone(d.message.payload)
           \/ ~(RequiredFields(model) \subseteq DOMAIN d.message.payload)

\* the names of the context the dispatch is given: client_send passes the
\* client and the app, server_send the app
ContextOf(method) == IF method = "SEND" THEN {"client", "app"} ELSE {"app"}

\* the handler of the route declares a parameter, other than a payload
\* typed by a model, that the context of the dispatch does not hold
MissingContext(d) ==
    LET parameters == RouteOf(d.message.type, d.method).parameters
    IN  \E i \in 1..Len(parameters) :
            /\ ~( parameters[i].name = "payload" /\
                  parameters[i].annotation \in BaseModels )
            /\ parameters[i].name \notin ContextOf(d.method)

\* C23: a dispatch is bound to a route only if the route's operation is the
\* whole type of the message and its method is the method of the dispatch;
\* when no route is registered under exactly that pair (the type is a
\* prefix or a suffix of an operation, extends one, or is registered for
\* the other direction only) the dispatch ends with NoMatchingOperation,
\* bound to no route, and no handler is in flight.
C23_ResolutionIsExact ==
    \A d \in AllDispatches :
        /\ d.route # NoRoute =>
              /\ d.route.operation = d.message.type
              /\ d.route.method = d.method
        /\ ~Registered(d.message.type, d.method) =>
              /\ d.status = "done"
              /\ d.route = NoRoute
              /\ d.outcome = ExcNoMatch

\* a peer sent a prefix of ping and a type that extends ping, and
\* server_send was given ping, which is registered for SEND only
C23_Witness ==
    /\ cur["A"].status = "done"
    /\ cur["A"].message.type = "pin"
    /\ cur["A"].outcome = ExcNoMatch
    /\ cur["B"].status = "done"
    /\ cur["B"].message.type = "ping.all"
    /\ cur["B"].outcome = ExcNoMatch
    /\ bc.dispatch.status = "done"
    /\ bc.dispatch.message.type = "ping"
    /\ bc.dispatch.outcome = ExcNoMatch

C25_MissingContextRaisesRuntimeError ==
    \A d \in AllDispatches :
        ( Registered(d.message.type, d.method) /\ MissingContext(d) ) =>
            /\ d.status = "done"
            /\ ~d.invoked
            /\ d.outcome.kind = "RuntimeError"

\* C25 amended: such a dispatch never invokes the handler; it ends with the
\* missing-parameter RuntimeError when the payload validates, and with the
\* ValidationError of the payload, which convert_params meets first, when
\* it does not.
C25_MissingContextFailsBeforeHandler ==
    \A d \in AllDispatches :
        ( Registered(d.message.type, d.method) /\ MissingContext(d) ) =>
            /\ d.status = "done"
            /\ ~d.invoked
            /\ d.outcome.kind =
                  IF PayloadInvalid(d) THEN "ValidationError"
                  ELSE "RuntimeError"

\* server_send was given unsubscribe, whose handler takes the client, with
\* a payload that validates
C25_Witness ==
    /\ bc.dispatch.status = "done"
    /\ bc.dispatch.message = Message("unsubscribe", [topic |-> "foo"])
    /\ bc.dispatch.outcome = ExcRuntime
    /\ ~bc.dispatch.invoked

(***************************************************************************)
(* Properties of a rejected registration.                                  *)
(***************************************************************************)
\* C27: a call of add_route that raises leaves the routes list of its
\* router exactly as it was; and the routes a parent already holds are
\* never modified by an include_router, whether it completes or raises.
C27_RejectedAddRouteChangesNothing ==
    [][ /\ \A t \in Routers :
             (reg.exc[t] = NoExc /\ reg'.exc[t] # NoExc) =>
                 reg'.routers[t].routes = reg.routers[t].routes
        /\ \A p \in Parents :
             /\ Len(reg'.parents[p]) >= Len(reg.parents[p])
             /\ SubSeq(reg'.parents[p], 1, Len(reg.parents[p])) =
                    reg.parents[p]
      ]_vars

\* a sub-router that holds a route has rejected a registration
C27_Witness ==
    \E t \in Routers :
        /\ reg.exc[t] = ExcAssertion
        /\ Len(reg.routers[t].routes) >= 1

(***************************************************************************)
(* Properties of one session's end with respect to the others.             *)
(***************************************************************************)
\* the step raises an exception in the task of session s, or is the
\* teardown of s after one
EndsWithError(s) ==
    \/ raised'[s] # raised[s]
    \/ pc[s] = "Closing" /\ pc'[s] = "Closed" /\ raised[s] # NoExc

\* C26: a step in which the session of one connection ends with an error
\* (a validation error, NoMatchingOperation, a timeout) or is torn down
\* after it leaves every other connection as it was (its registry entry,
\* its topics, its position, its exception, its dispatch, its frames) and
\* leaves the broadcast that is running as it was.
C26_ErrorStaysInItsSession ==
    [][\A s \in Sessions :
          EndsWithError(s) =>
              /\ \A t \in Sessions \ {s} :
                    /\ (t \in connections') <=> (t \in connections)
                    /\ topics'[t] = topics[t]
                    /\ pc'[t] = pc[t]
                    /\ raised'[t] = raised[t]
                    /\ cur'[t] = cur[t]
                    /\ sent'[t] = sent[t]
              /\ bc' = bc
      ]_vars

\* one session was ended by an error and unregistered while a broadcast is
\* running and another connection is registered, subscribed and in serve
C26_Witness ==
    \E s, t \in Sessions :
        /\ s # t
        /\ pc[s] = "Closed"
        /\ raised[s].kind \in
              {"ValidationError", "NoMatchingOperation", "TimeoutError"}
        /\ pc[t] = "Active"
        /\ t \in connections
        /\ topics[t] = {"foo"}
        /\ bc.state = "running"

(***************************************************************************)
(* Properties of the selection of the recipients.                          *)
(***************************************************************************)
\* C28: the step in which broadcast creates its tasks changes no registry
\* entry, no topics and no session, and creates a task for exactly the
\* connections registered with the topic at that step; while the broadcast
\* runs the set of its tasks never changes, whatever connects, leaves or
\* is unregistered meanwhile.
C28_SelectionIsOneStep ==
    [][ /\ (bc.state # "running" /\ bc'.state = "running") =>
              /\ connections' = connections
              /\ topics' = topics
              /\ pc' = pc
              /\ Launched' =
                    {c \in Sessions :
                        c \in connections /\ bc'.topic \in topics[c]}
        /\ (bc.state = "running" /\ bc'.state = "running") =>
              Launched' = Launched
      ]_vars

\* deliveries are pending and the registered subscribers of the topic are
\* no longer the connections that were selected
C28_Witness ==
    /\ bc.state = "running"
    /\ \E c \in Sessions : bc.tasks[c] \in {"created", "sending"}
    /\ \E c \in Launched : c \notin connections
    /\ \E c \in Sessions : c \in Subscribed(bc.topic) /\ c \notin Launched

====
